---- MODULE Spec2Model ----
(***************************************************************************)
(* Model of api/app.py: the OpenSCAD render service.                       *)
(*                                                                         *)
(* Strings (file names, paths, captured process output) are sequences of   *)
(* tokens, so that endswith, basename and os.path.join are computed and    *)
(* not assumed.  File contents are sequences of chunks (integers): a write *)
(* appends one chunk per step and a read takes one chunk per step, the     *)
(* granularity at which concurrent requests of the threaded server         *)
(* interleave on the filesystem.                                           *)
(***************************************************************************)
EXTENDS Integers, Sequences, FiniteSets, TLC

\* ------------------------------------------------------------------ bounds
MaxJobs == 2
MaxUploads == 2

Jobs == 1..MaxJobs
Uploads == 1..MaxUploads

\* ----------------------------------------------------------------- strings
SCAD_EXT == <<".scad">>
STL_EXT == <<".stl">>
SEP == "/"

\* str.endswith(suffix)
EndsWith(s, suffix) ==
    /\ Len(s) >= Len(suffix)
    /\ SubSeq(s, Len(s) - Len(suffix) + 1, Len(s)) = suffix

\* os.path.join(a, b): an absolute b replaces a
OsPathJoin(a, b) ==
    IF b # <<>> /\ Head(b) = SEP THEN b ELSE a \o <<SEP>> \o b

\* index of the last separator of p, 0 when there is none
LastSep(p) ==
    LET idx == {i \in 1..Len(p) : p[i] = SEP}
    IN IF idx = {} THEN 0 ELSE CHOOSE i \in idx : \A k \in idx : k <= i

\* os.path.basename(p)
Basename(p) == SubSeq(p, LastSep(p) + 1, Len(p))

\* os.path.dirname(p)
Dirname(p) == SubSeq(p, 1, LastSep(p) - 1)

\* both directories are absolute paths (tempfile.gettempdir(),
\* os.path.abspath)
MODELS_DIR == <<SEP, "tmp", SEP, "openscad_models">>
LIBRARIES_DIR == <<SEP, "api", SEP, "libraries">>

\* an id that is the same for every request
UuidShared(j) == <<"1">>

\* str(uuid.uuid4()) of the j-th request: fresh for every request
Uuid(j) == <<ToString(j)>>

\* ------------------------------------------------------------------ inputs
\* payloads of library uploads: all chunks of one version, in one chunk or
\* in two
ShortPayloads == {<<1>>, <<2>>}
LongPayloads == {<<1, 1>>, <<2, 2>>}

\* file names a client may send with an upload: an accepted one, the empty
\* one and names without the extension
UploadNames ==
    {<<"a", ".scad">>, <<>>, <<"a", ".txt">>, <<"a", ".scad", ".bak">>}
LibNames == {n \in UploadNames : n # <<>> /\ n[Len(n)] = ".scad"}

\* upload requests with payloads from P: request.files has a 'file' part
\* or not
UploadRequests(P) ==
    [hasFile : {TRUE}, filename : LibNames, data : P]
        \cup [hasFile : {TRUE}, filename : UploadNames \ LibNames,
              data : {CHOOSE d \in P : TRUE}]
        \cup {[hasFile |-> FALSE, filename |-> <<>>,
               data |-> CHOOSE d \in P : TRUE]}

\* the programs a client may submit (the compiler is a black box: the text
\* is only written to the source file)
ScadCodes == {<<7>>}

\* what the compiler may write to the artifact file of the j-th request
Meshes(j) == {<<10 + j>>}

\* bytes the compiler may write to standard error
CR == "<CR>"
LF == "<LF>"
INVALID == "<0xFF>"
StderrBytes ==
    { <<"ERROR: syntax error">>,
      <<"ERROR", CR, LF, "line 2", CR>>,
      <<"ERROR", INVALID>> }

\* the outcomes of subprocess.run: the executable is missing, is there but
\* may not be executed, or runs and exits with a status, standard error
\* bytes and possibly an output file (mesh, <<>> when none is written)
NoRun == [spawn |-> "none", exit |-> 0, stderr |-> <<>>, mesh |-> <<>>]
RunOutcomes(j) ==
    {[spawn |-> s, exit |-> 0, stderr |-> <<>>, mesh |-> <<>>] :
        s \in {"missing", "denied"}}
    \cup [spawn : {"ok"}, exit : {1}, stderr : StderrBytes, mesh : {<<>>}]
    \cup [spawn : {"ok"}, exit : {0}, stderr : {<<>>, <<INVALID>>},
          mesh : Meshes(j) \cup {<<>>}]

\* the names a client may ask View3D for
FetchNames ==
    {Uuid(j) \o STL_EXT : j \in Jobs}
        \cup {<<>>, <<"1", ".scad">>, <<"nope", ".stl">>}

\* a file of the host that the service has not written
HOST_FILE == <<SEP, "srv", SEP, "part", ".stl">>

\* names with path separators that a client may ask View3D for: a job
\* directory and the artifact in it, and an absolute path
PathFetchNames ==
    {Uuid(j) \o <<SEP>> \o Uuid(j) \o STL_EXT : j \in Jobs} \cup {HOST_FILE}

\* file names with path separators that a client may send with an upload:
\* the absolute path of the source file of the first request (its id is in
\* the stlPath that Render returns)
PathUploadNames ==
    {MODELS_DIR \o <<SEP>> \o Uuid(1) \o <<SEP>> \o Uuid(1) \o SCAD_EXT}

\* upload requests of the names of N, accepted or not, with one payload
PathUploadRequests(N) ==
    [hasFile : {TRUE}, filename : N \cup {<<"a", ".txt">>}, data : {<<2>>}]

VARIABLES
    fs,          \* the filesystem: path -> contents of the file at that path
    stl_cache,   \* app.py:47, basename -> path
    jobs,        \* the RenderScad / GetStl requests
    uploads,     \* the UploadLibrary requests
    last,        \* the request that returned last, and its response
    registered   \* history: name -> the payloads of its completed uploads,
                 \* oldest first

vars == <<fs, stl_cache, jobs, uploads, last, registered>>

\* ------------------------------------------------------------- filesystem
Exists(p) == p \in DOMAIN fs

\* f with x mapped to v, x added to the domain when new
Put(f, x, v) == (x :> v) @@ f

\* a write of one chunk at offset off (0-based) of a file: in place, at the
\* end, or past the end (the gap reads as zeros)
WriteAt(content, off, chunk) ==
    [i \in 1..(IF off + 1 > Len(content) THEN off + 1 ELSE Len(content)) |->
        IF i = off + 1 THEN chunk
        ELSE IF i <= Len(content) THEN content[i] ELSE 0]

\* the directory exists: the two roots are made when the module is loaded
\* (app.py:38, 43), a job directory by os.makedirs of the request
\* (app.py:77); a directory that holds a file exists
DirExists(dir) ==
    \/ dir \in {MODELS_DIR, LIBRARIES_DIR}
    \/ \E p \in DOMAIN fs : Dirname(p) = dir
    \/ \E j \in Jobs :
            /\ jobs[j].pc \in {"copy", "run", "publish", "verify"}
            /\ dir = OsPathJoin(MODELS_DIR, Uuid(j))

\* os.listdir(dir) on filesystem f: the names of the files directly in dir
ListDirOf(f, dir) == {Basename(p) : p \in {q \in DOMAIN f : Dirname(q) = dir}}
ListDir(dir) == ListDirOf(fs, dir)

\* the library pool of filesystem f: name -> contents on disk
PoolOf(f) ==
    [n \in ListDirOf(f, LIBRARIES_DIR) |-> f[OsPathJoin(LIBRARIES_DIR, n)]]
Pool == PoolOf(fs)

\* --------------------------------------------------------------- responses
\* a response: kind, and what it carries (the file parameter of stlPath or
\* the download name, the bytes sent, the "details" of an error)
Response(k, file, bytes, details) ==
    [kind |-> k, file |-> file, bytes |-> bytes, details |-> details]
Result(k) == Response(k, <<>>, <<>>, <<>>)

\* the request that returned: the operation, the slot of the request, what
\* was asked (file name, upload payload), what the compiler did, the path
\* View3D resolved, and the response
Returned(op, slot, hasFile, file, data, run, path, response) ==
    [op |-> op, slot |-> slot, hasFile |-> hasFile, file |-> file,
     data |-> data, run |-> run, path |-> path, response |-> response]
Nothing == Returned("none", 0, FALSE, <<>>, <<>>, NoRun, <<>>, Result("none"))
JobReturned(j, run, response) ==
    Returned(jobs[j].endpoint, j, FALSE, <<>>, <<>>, run, <<>>, response)

\* a response is handed to its client before the next step is looked at:
\* last holds it until then
Quiet == last = Nothing
Deliver ==
    /\ last # Nothing
    /\ last' = Nothing
    /\ UNCHANGED <<fs, stl_cache, jobs, uploads, registered>>

\* ------------------------------------------------------------- render jobs
\* ok: the request has returned a success
IdleJob ==
    [pc |-> "new", endpoint |-> "none", scad_code |-> <<>>,
     todo |-> {}, cur |-> <<>>, run |-> NoRun, ok |-> FALSE,
     seen |-> {}, reg |-> <<>>]

\* app.py:75-80 and 146-151
model_id(j) == Uuid(j)
model_dir(j) == OsPathJoin(MODELS_DIR, model_id(j))
scad_file_path(j) == OsPathJoin(model_dir(j), model_id(j) \o SCAD_EXT)
stl_file_path(j) == OsPathJoin(model_dir(j), model_id(j) \o STL_EXT)

\* the job is between the creation of its directory and the end of the write
\* of its source file
InStaging(j) == jobs[j].pc = "copy"

\* history kept while a job stages: the pool states it overlapped with, and
\* per library name the payloads whose upload completed
Observed(f, done) ==
    [j \in Jobs |->
        IF InStaging(j)
        THEN [jobs[j] EXCEPT
                !.seen = @ \cup {PoolOf(f)},
                !.reg = [n \in DOMAIN @ |->
                            IF n \in DOMAIN done THEN @[n] \cup {done[n]}
                            ELSE @[n]]]
        ELSE jobs[j]]

Latest(history) == history[Len(history)]

\* the response to a request whose handler raised outside any try block
Unhandled == Result("InternalServerError")

\* a finished job keeps its endpoint and whether it succeeded
Finished(j, ok) ==
    [IdleJob EXCEPT !.pc = "done", !.endpoint = jobs[j].endpoint, !.ok = ok]

\* requests are numbered in the order they arrive
Arrives(slots, k) == IF k = 1 THEN TRUE ELSE slots[k - 1].pc # "new"

\* app.py:71-83 (142-154): new id, os.makedirs, the two paths, os.listdir
Begin(j, endpoint, code) ==
    /\ Quiet
    /\ jobs[j].pc = "new"
    /\ Arrives(jobs, j)
    /\ jobs' = [jobs EXCEPT ![j] =
            [IdleJob EXCEPT !.pc = "copy", !.endpoint = endpoint,
                            !.scad_code = code,
                            !.todo = ListDir(LIBRARIES_DIR),
                            !.seen = {Pool},
                            !.reg = [n \in DOMAIN registered |->
                                        {Latest(registered[n])}]]]
    /\ UNCHANGED <<fs, stl_cache, uploads, last, registered>>

\* app.py:83-87 (154-158): the next directory entry; one that does not end
\* in .scad is skipped, another is opened and its first chunk copied
CopyOpen(j, lib_file) ==
    /\ Quiet
    /\ jobs[j].pc = "copy"
    /\ jobs[j].cur = <<>>
    /\ lib_file \in jobs[j].todo
    /\ IF EndsWith(lib_file, SCAD_EXT)
       THEN LET src_path == OsPathJoin(LIBRARIES_DIR, lib_file)
                dst_path == OsPathJoin(model_dir(j), lib_file)
            IN /\ fs' = Put(fs, dst_path, IF fs[src_path] = <<>> THEN <<>>
                                          ELSE <<fs[src_path][1]>>)
               /\ jobs' = [jobs EXCEPT
                            ![j].todo = @ \ {lib_file},
                            ![j].cur = IF fs[src_path] = <<>> THEN <<>>
                                       ELSE lib_file]
       ELSE /\ jobs' = [jobs EXCEPT ![j].todo = @ \ {lib_file}]
            /\ UNCHANGED fs
    /\ UNCHANGED <<stl_cache, uploads, last, registered>>

\* app.py:87 (158): shutil.copy2 reads the next chunk of the source at its
\* own offset and appends it to the destination, until end of file
CopyChunk(j) ==
    /\ Quiet
    /\ jobs[j].pc = "copy"
    /\ jobs[j].cur # <<>>
    /\ LET src_path == OsPathJoin(LIBRARIES_DIR, jobs[j].cur)
           dst_path == OsPathJoin(model_dir(j), jobs[j].cur)
           off == Len(fs[dst_path])
       IN IF off < Len(fs[src_path])
          THEN /\ fs' = Put(fs, dst_path,
                            Append(fs[dst_path], fs[src_path][off + 1]))
               /\ UNCHANGED jobs
          ELSE /\ jobs' = [jobs EXCEPT ![j].cur = <<>>]
               /\ UNCHANGED fs
    /\ UNCHANGED <<stl_cache, uploads, last, registered>>

\* a source file written without waiting for the copy loop
WriteSourceEarly(j) ==
    /\ Quiet
    /\ jobs[j].pc = "copy"
    /\ fs' = Put(fs, OsPathJoin(OsPathJoin(MODELS_DIR, Uuid(j)),
                                Uuid(j) \o SCAD_EXT), jobs[j].scad_code)
    /\ jobs' = [jobs EXCEPT ![j].pc = "run", ![j].todo = {}, ![j].cur = <<>>]
    /\ UNCHANGED <<stl_cache, uploads, last, registered>>

\* app.py:90-92 (161-163): the source file is written; the job is staged
WriteSource(j) ==
    /\ Quiet
    /\ jobs[j].pc = "copy"
    /\ jobs[j].cur = <<>>
    /\ jobs[j].todo = {}
    /\ fs' = Put(fs, scad_file_path(j), jobs[j].scad_code)
    /\ jobs' = [jobs EXCEPT ![j].pc = "run"]
    /\ UNCHANGED <<stl_cache, uploads, last, registered>>

\* app.py:77, 87, 91 (148, 158, 162): os.makedirs, shutil.copy2 and open /
\* write stand outside the try block, so an OSError they raise leaves the
\* handler
StageFail(j, endpoint) ==
    /\ Quiet
    /\ \/ /\ jobs[j].pc = "new"
          /\ Arrives(jobs, j)
       \/ /\ jobs[j].pc = "copy"
          /\ endpoint = jobs[j].endpoint
    /\ jobs' = [jobs EXCEPT ![j] =
            [IdleJob EXCEPT !.pc = "done", !.endpoint = endpoint]]
    /\ last' = Returned(endpoint, j, FALSE, <<>>, <<>>, NoRun, <<>>, Unhandled)
    /\ UNCHANGED <<fs, stl_cache, uploads, registered>>

\* ------------------------------------------------------------ the compiler
\* bytes.decode of captured output (text=True): fails on an invalid byte
Decodable(bytes) == \A i \in 1..Len(bytes) : bytes[i] # INVALID

\* a translation that knows "\r\n" only and leaves a lone "\r"
RECURSIVE TranslateCRLFOnly(_)
TranslateCRLFOnly(s) ==
    IF s = <<>> THEN <<>>
    ELSE IF Head(s) = CR /\ Len(s) >= 2 /\ s[2] = LF
         THEN <<LF>> \o TranslateCRLFOnly(SubSeq(s, 3, Len(s)))
         ELSE <<Head(s)>> \o TranslateCRLFOnly(Tail(s))

\* subprocess._translate_newlines: "\r\n" and "\r" become "\n"
RECURSIVE TranslateNewlines(_)
TranslateNewlines(s) ==
    IF s = <<>> THEN <<>>
    ELSE IF Head(s) = CR
         THEN IF Len(s) >= 2 /\ s[2] = LF
              THEN <<LF>> \o TranslateNewlines(SubSeq(s, 3, Len(s)))
              ELSE <<LF>> \o TranslateNewlines(Tail(s))
         ELSE <<Head(s)>> \o TranslateNewlines(Tail(s))

\* app.py:97-102 (167-172): what subprocess.run(check=True,
\* capture_output=True, text=True) raises for an outcome; the captured
\* output is decoded before the exit status is looked at
Raised(out) ==
    CASE out.spawn = "missing" -> "FileNotFoundError"
      [] out.spawn = "denied" -> "PermissionError"
      [] out.spawn = "ok" /\ ~Decodable(out.stderr) -> "UnicodeDecodeError"
      [] out.spawn = "ok" /\ Decodable(out.stderr) /\ out.exit # 0 ->
            "CalledProcessError"
      [] OTHER -> "none"

\* except clauses whose first one catches OSError instead of
\* FileNotFoundError
ExceptResponseOSError(exc, out) ==
    CASE exc \in {"FileNotFoundError", "PermissionError"} ->
            Result("ToolUnavailable")
      [] exc = "CalledProcessError" ->
            Response("CompilationFailed", <<>>, <<>>,
                     TranslateNewlines(out.stderr))
      [] OTHER -> Result("Unexpected")

\* app.py:118-126 (179-187): the except clauses, in order
ExceptResponse(exc, out) ==
    CASE exc = "FileNotFoundError" -> Result("ToolUnavailable")
      [] exc = "CalledProcessError" ->
            Response("CompilationFailed", <<>>, <<>>,
                     TranslateNewlines(out.stderr))
      [] OTHER -> Result("Unexpected")

\* app.py:97-103, 118-126 (167-173, 179-187): the compiler runs on the
\* staged workspace; an exception ends the request
Execute(j, out) ==
    /\ Quiet
    /\ jobs[j].pc = "run"
    /\ fs' = IF out.mesh # <<>> THEN Put(fs, stl_file_path(j), out.mesh)
             ELSE fs
    /\ IF Raised(out) # "none"
       THEN /\ jobs' = [jobs EXCEPT ![j] = Finished(j, FALSE)]
            /\ last' = JobReturned(j, out, ExceptResponse(Raised(out), out))
       ELSE /\ jobs' = [jobs EXCEPT ![j] =
                    [@ EXCEPT !.seen = {}, !.reg = <<>>, !.run = out,
                              !.pc = IF jobs[j].endpoint = "render"
                                     THEN "publish" ELSE "verify"]]
            /\ UNCHANGED last
    /\ UNCHANGED <<stl_cache, uploads, registered>>

\* a store under the download name, the same for every request
PublishShared(j) ==
    /\ Quiet
    /\ jobs[j].pc = "publish"
    /\ stl_cache' = Put(stl_cache, <<"model", ".stl">>,
                        OsPathJoin(OsPathJoin(MODELS_DIR, Uuid(j)),
                                   Uuid(j) \o STL_EXT))
    /\ jobs' = [jobs EXCEPT ![j].pc = "verify"]
    /\ UNCHANGED <<fs, uploads, last, registered>>

\* app.py:105-107: RenderScad stores the path under its basename
Publish(j) ==
    /\ Quiet
    /\ jobs[j].pc = "publish"
    /\ stl_cache' = Put(stl_cache, Basename(stl_file_path(j)), stl_file_path(j))
    /\ jobs' = [jobs EXCEPT ![j].pc = "verify"]
    /\ UNCHANGED <<fs, uploads, last, registered>>

\* app.py:110-117 and 176-178, 190-191: the output file is looked for and
\* the response built
VerifyResponse(j) ==
    IF ~Exists(stl_file_path(j)) THEN Result("OutputMissing")
    ELSE IF jobs[j].endpoint = "render"
         THEN Response("ok", Basename(stl_file_path(j)), <<>>, <<>>)
         ELSE Response("ok", <<"model", ".stl">>, fs[stl_file_path(j)], <<>>)

Verify(j) ==
    /\ Quiet
    /\ jobs[j].pc = "verify"
    /\ jobs' = [jobs EXCEPT ![j] = Finished(j, VerifyResponse(j).kind = "ok")]
    /\ last' = JobReturned(j, jobs[j].run, VerifyResponse(j))
    /\ UNCHANGED <<fs, stl_cache, uploads, registered>>

\* ------------------------------------------------------------------ View3D
\* p is a file somewhere below directory dir
Under(dir, p) ==
    /\ Len(p) > Len(dir) + 1
    /\ SubSeq(p, 1, Len(dir) + 1) = dir \o <<SEP>>

\* a test of the parameter that looks for a missing or empty one only
FetchRejectedEmpty(filename) == filename = <<>>

\* app.py:207: the parameter is missing, empty or has another extension
FetchRejected(filename) == filename = <<>> \/ ~EndsWith(filename, STL_EXT)

\* a lookup that knows neither the cache nor the job directories
ResolvePathsFlat(filename) == {OsPathJoin(MODELS_DIR, filename)}

\* a lookup without the walk of the job directories
ResolvePathsNoScan(filename) ==
    IF filename \in DOMAIN stl_cache THEN {stl_cache[filename]}
    ELSE {OsPathJoin(MODELS_DIR, filename)}

\* app.py:212-225: the cached path; else a file of that name found by
\* os.walk below MODELS_DIR; else MODELS_DIR/filename
ResolvePaths(filename) ==
    IF filename \in DOMAIN stl_cache THEN {stl_cache[filename]}
    ELSE LET found == {p \in DOMAIN fs :
                            Under(MODELS_DIR, p) /\ Basename(p) = filename}
         IN IF found # {} THEN found
            ELSE {OsPathJoin(MODELS_DIR, filename)}

\* app.py:227-260: 404 when nothing is at the path, else the file is sent
Serve(stl_path) ==
    IF ~Exists(stl_path) THEN Result("NotFound")
    ELSE Response("ok", <<>>, fs[stl_path], <<>>)

\* a View3D that stores the path it resolved
FetchCaching(filename) ==
    /\ Quiet
    /\ \/ /\ filename = <<>> \/ ~EndsWith(filename, STL_EXT)
          /\ last' = Returned("view3d", 0, FALSE, filename, <<>>, NoRun, <<>>,
                              Result("InvalidInput"))
          /\ UNCHANGED stl_cache
       \/ /\ ~(filename = <<>> \/ ~EndsWith(filename, STL_EXT))
          /\ \E stl_path \in
                    (IF filename \in DOMAIN stl_cache THEN {stl_cache[filename]}
                     ELSE {OsPathJoin(MODELS_DIR, filename)}
                            \cup {p \in DOMAIN fs : Basename(p) = filename}) :
                /\ last' = Returned("view3d", 0, FALSE, filename, <<>>, NoRun,
                                    stl_path,
                                    IF stl_path \in DOMAIN fs
                                    THEN Response("ok", <<>>, fs[stl_path], <<>>)
                                    ELSE Result("NotFound"))
                /\ stl_cache' = Put(stl_cache, filename, stl_path)
    /\ UNCHANGED <<fs, jobs, uploads, registered>>

\* app.py:206-260
Fetch(filename) ==
    /\ Quiet
    /\ \/ /\ FetchRejected(filename)
          /\ last' = Returned("view3d", 0, FALSE, filename, <<>>, NoRun, <<>>,
                              Result("InvalidInput"))
       \/ /\ ~FetchRejected(filename)
          /\ \E stl_path \in ResolvePaths(filename) :
                last' = Returned("view3d", 0, FALSE, filename, <<>>, NoRun,
                                 stl_path, Serve(stl_path))
    /\ UNCHANGED <<fs, stl_cache, jobs, uploads, registered>>

\* ----------------------------------------------------------- UploadLibrary
IdleUpload ==
    [pc |-> "new",
     request |-> [hasFile |-> FALSE, filename |-> <<>>, data |-> <<>>],
     pos |-> 0]
DoneUpload == [IdleUpload EXCEPT !.pc = "done"]

UploadReturned(u, req, response) ==
    Returned("upload", u, req.hasFile, req.filename, req.data, NoRun, <<>>,
             response)

\* early returns without the test of the extension
UploadRejectedNoExt(req) == ~req.hasFile \/ req.filename = <<>>

\* app.py:280-288: the three early returns of UploadLibrary.post
UploadRejected(req) ==
    \/ ~req.hasFile
    \/ req.filename = <<>>
    \/ ~EndsWith(req.filename, SCAD_EXT)

\* app.py:280-288: a rejected upload returns 400 and touches nothing
UploadReject(u, req) ==
    /\ Quiet
    /\ uploads[u].pc = "new"
    /\ Arrives(uploads, u)
    /\ UploadRejected(req)
    /\ uploads' = [uploads EXCEPT ![u] = DoneUpload]
    /\ last' = UploadReturned(u, req, Result("InvalidInput"))
    /\ UNCHANGED <<fs, stl_cache, jobs, registered>>

\* app.py:292-294: file.save opens the destination for writing, which
\* truncates the file in place; the file name is the client's, as sent
UploadOpen(u, req) ==
    /\ Quiet
    /\ uploads[u].pc = "new"
    /\ Arrives(uploads, u)
    /\ ~UploadRejected(req)
    /\ DirExists(Dirname(OsPathJoin(LIBRARIES_DIR, req.filename)))
    /\ uploads' = [uploads EXCEPT ![u] =
            [IdleUpload EXCEPT !.pc = "writing", !.request = req]]
    /\ fs' = Put(fs, OsPathJoin(LIBRARIES_DIR, req.filename), <<>>)
    /\ jobs' = Observed(fs', <<>>)
    /\ UNCHANGED <<stl_cache, last, registered>>

\* app.py:294-297: file.save writes the stream chunk by chunk at its own
\* offset; after the last chunk the handler returns success
UploadWrite(u) ==
    /\ Quiet
    /\ uploads[u].pc = "writing"
    /\ LET req == uploads[u].request
           file_path == OsPathJoin(LIBRARIES_DIR, req.filename)
           pos == uploads[u].pos
       IN /\ fs' = Put(fs, file_path,
                       WriteAt(fs[file_path], pos, req.data[pos + 1]))
          /\ IF pos + 1 = Len(req.data)
             THEN /\ uploads' = [uploads EXCEPT ![u] = DoneUpload]
                  /\ last' = UploadReturned(u, req, Result("ok"))
                  /\ registered' =
                        Put(registered, req.filename,
                            IF req.filename \in DOMAIN registered
                            THEN Append(registered[req.filename], req.data)
                            ELSE <<req.data>>)
                  /\ jobs' = Observed(fs', req.filename :> req.data)
             ELSE /\ uploads' = [uploads EXCEPT ![u].pos = pos + 1]
                  /\ jobs' = Observed(fs', <<>>)
                  /\ UNCHANGED <<last, registered>>
    /\ UNCHANGED stl_cache

\* app.py:298-300: a failing open or write is caught and returned as a 500;
\* what was written so far stays on disk
UploadFail(u, req) ==
    /\ Quiet
    /\ \/ /\ uploads[u].pc = "new"
          /\ Arrives(uploads, u)
          /\ ~UploadRejected(req)
       \/ /\ uploads[u].pc = "writing"
          /\ req = uploads[u].request
    /\ uploads' = [uploads EXCEPT ![u] = DoneUpload]
    /\ last' = UploadReturned(u, req, Result("IOError"))
    /\ UNCHANGED <<fs, stl_cache, jobs, registered>>

\* ---------------------------------------------------------- specifications
Endpoints == {"render", "getstl"}

Init ==
    /\ fs = <<>>
    /\ stl_cache = <<>>
    /\ jobs = [j \in Jobs |-> IdleJob]
    /\ uploads = [u \in Uploads |-> IdleUpload]
    /\ last = Nothing
    /\ registered = <<>>

\* the libraries directory outlives the process: the service may start
\* with a library that an earlier run stored
InitStocked ==
    /\ fs = (OsPathJoin(LIBRARIES_DIR, <<"a", ".scad">>) :> <<1>>)
    /\ stl_cache = <<>>
    /\ jobs = [j \in Jobs |-> IdleJob]
    /\ uploads = [u \in Uploads |-> IdleUpload]
    /\ last = Nothing
    /\ registered = (<<"a", ".scad">> :> << <<1>> >>)

\* the steps of the render requests of J
JobStep(J) ==
    \/ \E j \in J, e \in Endpoints, c \in ScadCodes : Begin(j, e, c)
    \/ \E j \in J : \E lib_file \in jobs[j].todo : CopyOpen(j, lib_file)
    \/ \E j \in J : CopyChunk(j)
    \/ \E j \in J : WriteSource(j)
    \/ \E j \in J, e \in Endpoints : StageFail(j, e)
    \/ \E j \in J : \E out \in RunOutcomes(j) : Execute(j, out)
    \/ \E j \in J : Publish(j)
    \/ \E j \in J : Verify(j)

\* the steps of the upload requests, with payloads from P
UploadStep(P) ==
    \/ \E u \in Uploads, req \in UploadRequests(P) : UploadReject(u, req)
    \/ \E u \in Uploads, req \in UploadRequests(P) : UploadOpen(u, req)
    \/ \E u \in Uploads : UploadWrite(u)
    \/ \E u \in Uploads, req \in UploadRequests(P) : UploadFail(u, req)

FetchStep == \E filename \in FetchNames : Fetch(filename)

\* the whole service: render, fetch and upload requests in any interleaving
Next == JobStep(Jobs) \/ UploadStep(ShortPayloads) \/ FetchStep \/ Deliver
Spec == Init /\ [][Next]_vars

\* one render request among uploads whose writes take two steps
NextLib == JobStep({1}) \/ UploadStep(LongPayloads) \/ Deliver
SpecLib == Init /\ [][NextLib]_vars

\* render and fetch requests, no upload under way
NextRender == JobStep(Jobs) \/ FetchStep \/ Deliver
SpecRender == InitStocked /\ [][NextRender]_vars

\* upload requests alone
NextUpload == UploadStep(LongPayloads) \/ Deliver
SpecUpload == Init /\ [][NextUpload]_vars

\* app.py:47, 309-310: the process ends and starts again: stl_cache is
\* empty again, the requests under way are gone without a response, the
\* files stay as they are
Restart ==
    /\ Quiet
    /\ stl_cache' = <<>>
    /\ jobs' = [j \in Jobs |->
                    IF jobs[j].pc \in {"new", "done"} THEN jobs[j]
                    ELSE Finished(j, FALSE)]
    /\ uploads' = [u \in Uploads |->
                    IF uploads[u].pc = "writing" THEN DoneUpload
                    ELSE uploads[u]]
    /\ UNCHANGED <<fs, last, registered>>

\* the service on a host that has a file of its own
InitHost ==
    /\ fs = (OsPathJoin(LIBRARIES_DIR, <<"a", ".scad">>) :> <<1>>)
                @@ (HOST_FILE :> <<99>>)
    /\ stl_cache = <<>>
    /\ jobs = [j \in Jobs |-> IdleJob]
    /\ uploads = [u \in Uploads |-> IdleUpload]
    /\ last = Nothing
    /\ registered = (<<"a", ".scad">> :> << <<1>> >>)

PathFetchStep == \E filename \in PathFetchNames : Fetch(filename)

\* render requests, fetch requests of any name, and restarts
NextFetch == JobStep(Jobs) \/ FetchStep \/ PathFetchStep \/ Restart \/ Deliver
SpecFetch == InitHost /\ [][NextFetch]_vars

\* the steps of upload requests whose file names are taken as sent
PathUploadStep ==
    \/ \E u \in Uploads, req \in PathUploadRequests(PathUploadNames) :
            UploadReject(u, req)
    \/ \E u \in Uploads, req \in PathUploadRequests(PathUploadNames) :
            UploadOpen(u, req)
    \/ \E u \in Uploads : UploadWrite(u)
    \/ \E u \in Uploads, req \in PathUploadRequests(PathUploadNames) :
            UploadFail(u, req)

\* one render request among uploads of any file name
NextPath == JobStep({1}) \/ UploadStep(ShortPayloads) \/ PathUploadStep \/ Deliver
SpecPath == Init /\ [][NextPath]_vars

\* ================================================================= claims
\* the artifact reference a successful Render of request j returns
ArtifactRef(j) == <<ToString(j), ".stl">>

\* request j is a Render that has returned success
RenderSucceeded(j) ==
    jobs[j].pc = "done" /\ jobs[j].endpoint = "render" /\ jobs[j].ok

\* the library files in the workspace of request j: name -> contents
WorkspaceLibs(j) ==
    [n \in ListDir(model_dir(j)) \ {Basename(scad_file_path(j)),
                                     Basename(stl_file_path(j))} |->
        fs[OsPathJoin(model_dir(j), n)]]

\* request j is staged: its workspace is what the compiler is handed
Staged(j) == jobs[j].pc = "run"

\* a render request has just returned
JobJustReturned == last.op \in Endpoints
\* ... after the compiler was invoked / without the compiler being invoked
CompilerRan == JobJustReturned /\ last.run.spawn # "none"
StagingFailed == JobJustReturned /\ last.run.spawn = "none"

HasInvalidByte(s) == \E i \in 1..Len(s) : s[i] = INVALID
HasCR(s) == \E i \in 1..Len(s) : s[i] = CR

\* C1: a Fetch of the reference returned by a successful Render, made after
\* that Render returned and whatever else happened in between, succeeds and
\* returns the contents that the compiler run of that job wrote at the job's
\* artifact path.
C1_FetchAfterRender ==
    \A j \in Jobs :
        (last.op = "view3d" /\ last.file = ArtifactRef(j) /\ RenderSucceeded(j))
            => /\ last.response.kind = "ok"
               /\ last.path = stl_file_path(j)
               /\ last.response.bytes \in Meshes(j)
               /\ last.response.bytes = fs[stl_file_path(j)]

\* C1 witness: such a Fetch has succeeded while another render request and
\* an upload have run as well
C1_Witness ==
    \E j \in Jobs :
        /\ last.op = "view3d" /\ last.file = ArtifactRef(j)
        /\ RenderSucceeded(j)
        /\ last.response.kind = "ok"
        /\ \E k \in Jobs \ {j} : jobs[k].pc # "new"
        /\ registered # <<>>

\* C2: every entry of the artifact index points to a path at which a
\* non-empty artifact file exists.
C2_IndexedArtifactsExist ==
    \A id \in DOMAIN stl_cache :
        Exists(stl_cache[id]) /\ fs[stl_cache[id]] # <<>>

\* C3: a job that has returned success is in the artifact index, whichever of
\* Render and RenderAndFetch it is; a job that has returned a failure is not;
\* and a job is in the index only once its compiler run has returned.
C3_SuccessIsPublished ==
    \A j \in Jobs :
        /\ (jobs[j].pc = "done" /\ jobs[j].ok)
                => ArtifactRef(j) \in DOMAIN stl_cache
        /\ (jobs[j].pc = "done" /\ ~jobs[j].ok)
                => ArtifactRef(j) \notin DOMAIN stl_cache
        /\ ArtifactRef(j) \in DOMAIN stl_cache
                => jobs[j].pc \in {"verify", "done"}

\* C4: every library file in a staged workspace is, whole, a payload that
\* some upload of that name has completely written.
C4_NoPartialLibraryInWorkspace ==
    \A j \in Jobs :
        Staged(j) =>
            \A n \in DOMAIN WorkspaceLibs(j) :
                /\ n \in DOMAIN registered
                /\ \E i \in 1..Len(registered[n]) :
                        WorkspaceLibs(j)[n] = registered[n][i]

\* C5: the library files of a staged workspace are the pool as it was at
\* one instant of the staging.
C5_PointInTimeSnapshot ==
    \A j \in Jobs : Staged(j) => WorkspaceLibs(j) \in jobs[j].seen

\* C6: a staged workspace holds, for every name whose upload had completed
\* when the request began, a file of that name with the payload of the most
\* recent completed upload of it (the one current when the request began or
\* one completed while it staged), and holds no library file of a name that
\* no upload ever put into the pool.
C6_RegisteredLibraryStaged ==
    \A j \in Jobs :
        Staged(j) =>
            /\ \A n \in DOMAIN jobs[j].reg :
                    /\ n \in DOMAIN WorkspaceLibs(j)
                    /\ WorkspaceLibs(j)[n] \in jobs[j].reg[n]
            /\ \A n \in DOMAIN WorkspaceLibs(j) : n \in DOMAIN Pool

\* C7 as claimed: missing or not runnable -> ToolUnavailable; non-zero exit
\* -> CompilationFailed; zero exit without the output file -> OutputMissing;
\* zero exit with the output file -> success (for Render with the basename
\* of the artifact path as reference).
C7_OutcomeDeterminesResult ==
    CompilerRan =>
        LET out == last.run
            kind == last.response.kind
        IN /\ out.spawn \in {"missing", "denied"} => kind = "ToolUnavailable"
           /\ (out.spawn = "ok" /\ out.exit # 0) => kind = "CompilationFailed"
           /\ (out.spawn = "ok" /\ out.exit = 0 /\ out.mesh = <<>>)
                => kind = "OutputMissing"
           /\ (out.spawn = "ok" /\ out.exit = 0 /\ out.mesh # <<>>)
                => /\ kind = "ok"
                   /\ last.op = "render"
                        => last.response.file = ArtifactRef(last.slot)

\* C7 amended: missing -> ToolUnavailable; present but not runnable, or
\* captured output that does not decode -> the generic unexpected error;
\* otherwise non-zero exit -> CompilationFailed, zero exit without the output
\* file -> OutputMissing, zero exit with it -> success (for Render with the
\* basename of the artifact path as reference).
C7_OutcomeDeterminesResultAmended ==
    CompilerRan =>
        LET out == last.run
            kind == last.response.kind
            ran == out.spawn = "ok" /\ ~HasInvalidByte(out.stderr)
        IN /\ out.spawn = "missing" => kind = "ToolUnavailable"
           /\ out.spawn = "denied" => kind = "Unexpected"
           /\ (out.spawn = "ok" /\ HasInvalidByte(out.stderr))
                => kind = "Unexpected"
           /\ (ran /\ out.exit # 0) => kind = "CompilationFailed"
           /\ (ran /\ out.exit = 0 /\ out.mesh = <<>>) => kind = "OutputMissing"
           /\ (ran /\ out.exit = 0 /\ out.mesh # <<>>)
                => /\ kind = "ok"
                   /\ last.op = "render"
                        => last.response.file = ArtifactRef(last.slot)

\* C7 witness: an executable that is there but may not be run has produced
\* the generic error
C7_Witness ==
    /\ CompilerRan
    /\ last.run.spawn = "denied"
    /\ last.response.kind = "Unexpected"

Kept(s) == {i \in 1..Len(s) : ~(s[i] = LF /\ i > 1 /\ s[i - 1] = CR)}
UniversalNewlines(s) ==
    [k \in 1..Cardinality(Kept(s)) |->
        LET i == CHOOSE i \in Kept(s) :
                    Cardinality({m \in Kept(s) : m <= i}) = k
        IN IF s[i] = CR THEN LF ELSE s[i]]

C9_StagingFailureTyped ==
    StagingFailed =>
        /\ last.response.kind = "IOError"
        /\ jobs[last.slot].pc = "done"
        /\ ~Exists(stl_file_path(last.slot))
        /\ ArtifactRef(last.slot) \notin DOMAIN stl_cache

\* C10: an upload whose file name is empty or does not end in .scad returns
\* InvalidInput, and the step that answers it leaves the pool (names and
\* contents) as it was.
C10_RejectedUploadLeavesPool ==
    [][(last'.op = "upload" /\ last' # last
            /\ (last'.file = <<>> \/ last'.file[Len(last'.file)] # ".scad"))
        => (last'.response.kind = "InvalidInput" /\ Pool' = Pool)]_vars

\* C10 witness: a name without the extension was rejected while the pool
\* held a file
C10_Witness ==
    /\ last.op = "upload"
    /\ last.file # <<>>
    /\ last.file[Len(last.file)] # ".scad"
    /\ last.response.kind = "InvalidInput"
    /\ DOMAIN Pool # {}

\* the artifact id of request j: the key under which its path is stored
ArtifactId(j) == Basename(stl_file_path(j))

\* the name is accepted by View3D
Accepted(filename) == filename # <<>> /\ filename[Len(filename)] = ".stl"

\* the recursive scan of the artifact root finds a file named filename
ScanHits(filename) ==
    {p \in DOMAIN fs : Under(MODELS_DIR, p) /\ Basename(p) = filename}

\* a View3D request has just returned
FetchReturned == last.op = "view3d"

\* C11: after a restart has emptied the index, a Fetch of the artifact of a
\* Render that had succeeded before the restart, whose file is still under
\* the artifact root, succeeds: it is resolved to the path at which that job
\* wrote the artifact and returns the contents of that file, as a Fetch
\* before the restart did.
C11_FetchAfterRestart ==
    \A j \in Jobs :
        (/\ FetchReturned /\ last.file = ArtifactRef(j)
         /\ RenderSucceeded(j)
         /\ ArtifactRef(j) \notin DOMAIN stl_cache
         /\ Exists(stl_file_path(j)))
            => /\ last.response.kind = "ok"
               /\ last.path = stl_file_path(j)
               /\ last.response.bytes = fs[stl_file_path(j)]
               /\ last.response.bytes \in Meshes(j)

\* C11 witness: the artifact of a Render that succeeded before a restart has
\* been fetched with the index empty
C11_Witness ==
    \E j \in Jobs :
        /\ FetchReturned /\ last.file = ArtifactRef(j)
        /\ RenderSucceeded(j)
        /\ stl_cache = <<>>
        /\ last.response.kind = "ok"
        /\ last.response.bytes \in Meshes(j)

\* C12: a Fetch of an accepted id that is not in the index and is the name
\* of no file anywhere under the artifact root returns NotFound, whether the
\* index is empty or holds other ids.
C12_UnknownIdNotFound ==
    (/\ FetchReturned /\ Accepted(last.file)
     /\ last.file \notin DOMAIN stl_cache
     /\ ScanHits(last.file) = {})
        => last.response.kind = "NotFound"

\* C13: a Fetch whose id is missing, empty or does not end in .stl returns
\* InvalidInput and has resolved no path and read no file, even when a file
\* of that name is under the artifact root.
C13_InvalidIdRejectedFirst ==
    (FetchReturned /\ ~Accepted(last.file))
        => /\ last.response.kind = "InvalidInput"
           /\ last.path = <<>>
           /\ last.response.bytes = <<>>

\* C13 witness: the name of the source file of a job, which is under the
\* artifact root, has been refused
C13_Witness ==
    /\ FetchReturned
    /\ \E j \in Jobs :
            /\ last.file = Basename(scad_file_path(j))
            /\ Exists(scad_file_path(j))
            /\ ScanHits(last.file) # {}
    /\ last.response.kind = "InvalidInput"

\* the paths whose contents a step creates or changes
Written == {p \in DOMAIN fs' : p \notin DOMAIN fs \/ fs'[p] # fs[p]}

\* what identifies request j: id, workspace, source path, artifact path and
\* artifact id
Identity(j) ==
    <<model_id(j), model_dir(j), scad_file_path(j), stl_file_path(j),
      ArtifactId(j)>>

Disjoint(j, k) ==
    /\ \A i \in 1..5 : Identity(j)[i] # Identity(k)[i]
    /\ ~Under(model_dir(j), scad_file_path(k))
    /\ ~Under(model_dir(j), stl_file_path(k))

\* C14: two distinct requests have distinct ids, workspaces, source paths,
\* artifact paths and artifact ids, and every file that a step of a request
\* writes is in the workspace of that request and of no other.
C14_JobsIsolated ==
    /\ [](\A j, k \in Jobs : j # k => Disjoint(j, k))
    /\ [][\A p \in Written :
            \E j \in Jobs :
                /\ jobs'[j] # jobs[j]
                /\ Under(model_dir(j), p)
                /\ \A k \in Jobs \ {j} :
                        jobs'[k] = jobs[k] /\ ~Under(model_dir(k), p)]_vars

\* C14 witness: two requests with the same source text are staged at the
\* same time, each with its own copy of the source and of the library
C14_Witness ==
    /\ \A j \in Jobs : Staged(j) /\ Exists(scad_file_path(j))
    /\ \A j, k \in Jobs : fs[scad_file_path(j)] = fs[scad_file_path(k)]
    /\ \A j \in Jobs : DOMAIN WorkspaceLibs(j) # {}

\* C15: a Fetch that serves a file serves one under the artifact root, at
\* the path stored in the index for the id or at the path of a file named id
\* that the scan finds; a Fetch of an accepted id, with path separators or
\* not, that has neither returns NotFound.
C15_FetchStaysUnderRoot ==
    (FetchReturned /\ Accepted(last.file)) =>
        /\ last.response.kind = "ok" =>
                /\ Under(MODELS_DIR, last.path)
                /\ IF last.file \in DOMAIN stl_cache
                   THEN last.path = stl_cache[last.file]
                   ELSE last.path \in ScanHits(last.file)
        /\ (last.file \notin DOMAIN stl_cache /\ ScanHits(last.file) = {})
                => last.response.kind = "NotFound"

\* C16: a step keeps every entry of the index, with its path; an entry that
\* a step adds is the artifact id and path of the one request that publishes
\* in that step, and no other request has that id.
C16_IndexAppendOnly ==
    [][/\ \A id \in DOMAIN stl_cache :
            id \in DOMAIN stl_cache' /\ stl_cache'[id] = stl_cache[id]
       /\ \A id \in DOMAIN stl_cache' \ DOMAIN stl_cache :
            \E j \in Jobs :
                /\ id = ArtifactId(j) /\ stl_cache'[id] = stl_file_path(j)
                /\ jobs[j].pc = "publish" /\ jobs'[j].pc = "verify"
                /\ \A k \in Jobs \ {j} : ArtifactId(k) # id]_vars

\* C16 witness: two requests have published and a Fetch has looked an entry
\* up
C16_Witness ==
    /\ Cardinality(DOMAIN stl_cache) = 2
    /\ FetchReturned
    /\ last.file \in DOMAIN stl_cache
    /\ last.response.kind = "ok"

\* the order of the steps of a request
Rank(pc) ==
    CASE pc = "new" -> 0
      [] pc = "copy" -> 1
      [] pc = "run" -> 2
      [] pc = "publish" -> 3
      [] pc = "verify" -> 4
      [] pc = "done" -> 5

\* the workspace of request j on filesystem f holds the source text and a
\* copy of every library of the pool
FullyStaged(f, j, code) ==
    /\ scad_file_path(j) \in DOMAIN f
    /\ f[scad_file_path(j)] = code
    /\ \A n \in DOMAIN PoolOf(f) :
            EndsWith(n, SCAD_EXT) => OsPathJoin(model_dir(j), n) \in DOMAIN f

\* C17: a request never steps back, so its compiler runs at most once; the
\* compiler is handed a workspace only when the source file and the copies
\* of all libraries are in it, and writes the artifact only in that run; a
\* request that has returned makes no further step, and one that has failed
\* is not put into the index afterwards.
C17_CompilerOnceAfterStaging ==
    [][\A j \in Jobs :
        /\ Rank(jobs'[j].pc) >= Rank(jobs[j].pc)
        /\ (jobs'[j].pc = "run" /\ jobs[j].pc # "run")
                => FullyStaged(fs', j, jobs'[j].scad_code)
        /\ (jobs[j].pc = "run" /\ jobs'[j].pc # "run")
                => FullyStaged(fs, j, jobs[j].scad_code)
        /\ stl_file_path(j) \in Written => jobs[j].pc = "run"
        /\ jobs[j].pc = "done"
                => /\ jobs'[j] = jobs[j]
                   /\ stl_file_path(j) \notin Written
                   /\ (~jobs[j].ok /\ ArtifactId(j) \in DOMAIN stl_cache')
                        => ArtifactId(j) \in DOMAIN stl_cache]_vars

\* C17 witness: the compiler of the first request has failed, the request
\* has returned, and later another request has succeeded and a Fetch of the
\* artifact of the first finds nothing
C17_Witness ==
    /\ jobs[1].pc = "done" /\ ~jobs[1].ok
    /\ Exists(scad_file_path(1))
    /\ ArtifactId(1) \notin DOMAIN stl_cache
    /\ jobs[2].pc = "done" /\ jobs[2].ok
    /\ FetchReturned /\ last.file = ArtifactId(1)
    /\ last.response.kind = "NotFound"

\* C18: the step in which a Fetch returns, whatever it returns, leaves the
\* index, the pool, the workspaces and the requests as they were.
C18_FetchReadOnly ==
    [][(last'.op = "view3d" /\ last' # last)
        => /\ stl_cache' = stl_cache
           /\ fs' = fs
           /\ jobs' = jobs /\ uploads' = uploads]_vars

\* C18 witness: a Fetch has been resolved by the scan and the id is not in
\* the index afterwards
C18_Witness ==
    /\ FetchReturned
    /\ last.response.kind = "ok"
    /\ last.file \notin DOMAIN stl_cache
    /\ last.path \in ScanHits(last.file)

\* C19: an upload that has succeeded has written the pool entry of its name,
\* a file directly in the pool directory, and no file of a workspace: the
\* source file of every staged request is as the request wrote it.
C19_UploadTouchesPoolOnly ==
    (last.op = "upload" /\ last.response.kind = "ok") =>
        LET file_path == OsPathJoin(LIBRARIES_DIR, last.file)
        IN /\ Dirname(file_path) = LIBRARIES_DIR
           /\ \A j \in Jobs : ~Under(model_dir(j), file_path)
           /\ \A j \in Jobs :
                Staged(j) => fs[scad_file_path(j)] = jobs[j].scad_code
====
